---------------------------- MODULE Spec2Model ----------------------------
(***************************************************************************)
(* Model of hwt9053.js: the serial 'data' handler (frame decoder), the     *)
(* primary delivery with gap detection and backfill from the daily log,    *)
(* and the shared state they mutate (dataBuffer, lastSuccessTime).         *)
(*                                                                         *)
(* The 'data' listener is an async function registered on an event         *)
(* emitter: the emitter does not wait for the promise it returns, so one   *)
(* invocation per chunk exists and each is suspended at its awaits.  Every *)
(* action below is the code between two awaits of one invocation.          *)
(***************************************************************************)
EXTENDS Integers, Sequences, FiniteSets, TLC

(***************************************************************************)
(* Bounds of the model.                                                    *)
(***************************************************************************)
MaxHandlers == 3
MaxChunks == 2
MaxTime == 4
MsPerDay == 3
MaxDecodeChunks == 1
MaxGarbage == 3
MaxPeriod == 4          \* the longest sample period the scheduler is run with
MaxClockMs == 2         \* clock samples this far from either end of a minute
MaxElapsed == 7         \* milliseconds the timers are followed for
MaxLogLen == 3          \* records in the daily log files at the start
MaxEarly == 1           \* milliseconds a timer's callback may run early
MaxFailed == 1          \* writes to the port that report an error

(***************************************************************************)
(* Program constants.                                                      *)
(***************************************************************************)
SAMPLE_RATE == 2
FRAME_LEN == 17
CRC_INIT == 65535
CRC_POLY == 40961
HEADER_BYTE == 80
DEVICE_ID == "tiltmeter_01"

NULL == "null"

(* lastSuccessTime = null *)
NoTime == [null |-> TRUE]

Magic == <<80, 3, 12>>

(***************************************************************************)
(* Bit operations of JavaScript on the ranges the program uses.            *)
(***************************************************************************)
RECURSIVE BitXorRec(_, _)
BitXorRec(a, b) ==
    IF a = 0 THEN b
    ELSE IF b = 0 THEN a
    ELSE ((a + b) % 2) + 2 * BitXorRec(a \div 2, b \div 2)

(* a ^ b on bytes, tabulated once.                                         *)
XorByte == [a \in 0..255 |-> [b \in 0..255 |-> BitXorRec(a, b)]]

(* a ^ b for 0 <= a, b < 2^16.                                             *)
BitXor(a, b) ==
    XorByte[a % 256][b % 256] + 256 * XorByte[a \div 256][b \div 256]

(* Buffer.slice(from, to): bytes at 0-based offsets from .. to-1, clamped. *)
Slice(buf, from, to) ==
    LET hi == IF to > Len(buf) THEN Len(buf) ELSE to
    IN  IF from >= hi THEN << >> ELSE SubSeq(buf, from + 1, hi)

(* Buffer.slice(from): the bytes from 0-based offset from to the end.      *)
SliceFrom(buf, from) == Slice(buf, from, Len(buf))

(* One round of the inner loop of crc16Modbus.                             *)
CrcShiftBug(crc) ==
    IF crc % 2 = 1 THEN BitXor(crc \div 2, 40960) ELSE crc \div 2

CrcShift(crc) ==
    IF crc % 2 = 1 THEN BitXor(crc \div 2, CRC_POLY) ELSE crc \div 2

(* for (let i = 0; i < 8; i++): the rounds left to run on crc.  The CASE   *)
(* makes the register a value before the next round, as the code does.     *)
RECURSIVE CrcRounds(_, _)
CrcRounds(crc, n) ==
    IF n = 0 THEN crc
    ELSE LET next == CrcShift(crc)
         IN  CASE next >= 0 -> CrcRounds(next, n - 1)

(* crc ^= byte, then the eight rounds.                                     *)
CrcByte(crc, byte) == CrcRounds(BitXor(crc, byte), 8)

(* for (let byte of buffer)                                                *)
RECURSIVE CrcFold(_, _, _)
CrcFold(crc, buf, i) ==
    IF i > Len(buf) THEN crc
    ELSE LET next == CrcByte(crc, buf[i])
         IN  CASE next >= 0 -> CrcFold(next, buf, i + 1)

(* crc16Modbus(buffer): the two bytes [crc & 0xFF, (crc >> 8) & 0xFF].     *)
crc16Modbus(buffer) ==
    LET crc == CrcFold(CRC_INIT, buffer, 1)
    IN  <<crc % 256, (crc \div 256) % 256>>

IndexOfBug(buf, value, from) ==
    LET found == {k \in 0..(Len(buf) - 1) : buf[k + 1] = value}
    IN  IF found = {} THEN -1
        ELSE CHOOSE k \in found : \A l \in found : k <= l

(* dataBuffer.indexOf(value, from): least 0-based offset >= from, or -1.    *)
RECURSIVE IndexOf(_, _, _)
IndexOf(buf, value, from) ==
    IF from >= Len(buf) THEN -1
    ELSE IF buf[from + 1] = value THEN from
    ELSE IndexOf(buf, value, from + 1)

(***************************************************************************)
(* Timestamps.  Date.toISOString() gives "<date>T<time of day>Z"; the      *)
(* string is modelled by its two parts, the date part being what           *)
(* split('T')[0] returns.  new Date(string) parses it back to milliseconds.*)
(***************************************************************************)
toISOString(ms) == [date |-> ms \div MsPerDay, time |-> ms % MsPerDay]

DateParse(iso) == iso.date * MsPerDay + iso.time

DatePart(ms) == toISOString(ms).date

(***************************************************************************)
(* The process's time zone, as far as the program depends on it: the       *)
(* instant (UTC milliseconds) of a daylight-saving change and the change   *)
(* of the local offset at it (positive when clocks go forward).  shift = 0 *)
(* is UTC or any zone without such a change.                               *)
(***************************************************************************)
DST_SHIFT == 1

Utc == [at |-> 0, shift |-> 0]

(***************************************************************************)
(* currentDate.setDate(currentDate.getDate() + 1): the same local time on  *)
(* the next local calendar day, which is 24 hours later unless the local   *)
(* offset changes in between.  plain is that local time taken with the     *)
(* offset in force at currentDate.  When the clocks go forward and the     *)
(* local time falls in the hour that is skipped, or when they go back and  *)
(* the local time occurs twice, the offset before the change is used.      *)
(***************************************************************************)
setDateNextDay(currentDate, tz) ==
    LET plain == currentDate + MsPerDay
    IN  IF tz.shift = 0 \/ currentDate >= tz.at THEN plain
        ELSE IF tz.shift > 0
             THEN (IF plain < tz.at + tz.shift THEN plain
                   ELSE plain - tz.shift)
             ELSE (IF plain < tz.at THEN plain ELSE plain - tz.shift)

(* while (currentDate <= endDate) { dates.push(...); setDate(...) }        *)
RECURSIVE DateLoop(_, _, _)
DateLoop(currentDate, endDate, tz) ==
    IF currentDate > endDate THEN << >>
    ELSE <<DatePart(currentDate)>>
             \o DateLoop(setDateNextDay(currentDate, tz), endDate, tz)

(***************************************************************************)
(* getDateRange(startDateStr, endDateStr) in time zone tz: new Date(str)   *)
(* is midnight UTC of the date, the dates pushed are UTC dates, the step   *)
(* is a local calendar day.                                                *)
(***************************************************************************)
getDateRange(startDate, endDate, tz) ==
    DateLoop(startDate * MsPerDay, endDate * MsPerDay, tz)

(***************************************************************************)
(* Angle decoding: (b[o+2] << 24 | b[o+3] << 16 | b[o] << 8 | b[o+1]) as a *)
(* signed 32-bit integer, divided by 1000 and printed by toFixed(3).       *)
(***************************************************************************)
Int32AtBug(buf, o) ==
    LET hi == buf[o + 3] * 256 + buf[o + 4]
        lo == buf[o + 2] * 256 + buf[o + 1]
    IN  IF hi >= 32768 THEN (hi - 65536) * 65536 + lo ELSE hi * 65536 + lo

Int32At(buf, o) ==
    LET hi == buf[o + 3] * 256 + buf[o + 4]
        lo == buf[o + 1] * 256 + buf[o + 2]
    IN  IF hi >= 32768 THEN (hi - 65536) * 65536 + lo ELSE hi * 65536 + lo

Pad3(n) ==
    IF n < 10 THEN "00" \o ToString(n)
    ELSE IF n < 100 THEN "0" \o ToString(n)
    ELSE ToString(n)

(* (n / 1000).toFixed(3) for an integer n of thousandths.                  *)
toFixed3(n) ==
    IF n < -2147483647 THEN "-2147483.648"
    ELSE LET a == IF n < 0 THEN -n ELSE n
         IN  (IF n < 0 THEN "-" ELSE "") \o ToString(a \div 1000)
                 \o "." \o Pad3(a % 1000)

DecodeAngles(buf) ==
    [ang_x |-> toFixed3(Int32At(buf, 3)),
     ang_y |-> toFixed3(Int32At(buf, 7)),
     ang_z |-> toFixed3(Int32At(buf, 11))]

(***************************************************************************)
(* Frames.  MakeFrame builds what the sensor sends for a 12-byte payload. *)
(***************************************************************************)
MakeFrame(payload12) ==
    LET body == Magic \o payload12 IN body \o crc16Modbus(body)

PayloadA == <<100, 0, 0, 0, 0, 0, 0, 0, 0, 0, 0, 0>>
FrameA == MakeFrame(PayloadA)
BadCrcFrame == Magic \o PayloadA \o <<0, 0>>
HeadA == Slice(FrameA, 0, 8)
TailA == SliceFrom(FrameA, 8)

(* The chunks the serial port delivers in the main specification: one      *)
(* frame, or two frames the port coalesced.                                *)
Chunks == {FrameA, FrameA \o FrameA}

PayloadB == <<255, 255, 255, 255, 1, 2, 0, 0, 16, 39, 0, 0>>
FrameB == MakeFrame(PayloadB)

(* The byte b with bit k (0 = least significant) flipped.                  *)
FlipBitOfByte(b, k) == BitXor(b, 2 ^ k)

(* The frame f with bit k of its 12 payload bytes (offsets 3..14) flipped. *)
FlipPayloadBit(f, k) ==
    [f EXCEPT ![4 + (k \div 8)] = FlipBitOfByte(@, k % 8)]

PayloadBits == 0..95

FlippedFrames == {FlipPayloadBit(FrameA, k) : k \in PayloadBits}

(* Candidates of the CRC specification: frames, frames with one payload    *)
(* bit flipped and frames with a wrong or byte-swapped trailer.            *)
CrcChunks ==
    {FrameA, FrameB, BadCrcFrame,
     Slice(FrameA, 0, 15) \o <<FrameA[17], FrameA[16]>>,
     Slice(FrameB, 0, 15) \o Slice(FrameA, 15, 17)}
        \cup FlippedFrames

(* Garbage: the byte strings of 1..MaxGarbage bytes over GarbageBytes      *)
(* (which hold the header's first byte), and strings holding the header.   *)
GarbageBytes == {0, 80}

RECURSIVE StringsOfLen(_)
StringsOfLen(n) ==
    IF n = 0 THEN {<< >>}
    ELSE {<<b>> \o g : b \in GarbageBytes, g \in StringsOfLen(n - 1)}

Garbage ==
    UNION {StringsOfLen(n) : n \in 1..MaxGarbage}
        \cup {Magic, <<0>> \o Magic, <<80>> \o Magic, Magic \o <<0>>,
              <<80, 3>>, <<3, 12>>, <<12, 80, 3>>}

(* Chunks of the decoder specification.                                    *)
DecodeChunks ==
    {g \o FrameA : g \in Garbage}
        \cup {FrameA, HeadA, TailA, BadCrcFrame, FrameA \o HeadA,
              FrameA \o FrameB, BadCrcFrame \o FrameA,
              <<0, 0, 0, 0, 0, 0, 0, 0, 0, 0, 0, 0, 0, 0, 0, 0, 0>>}

(* Buffers an earlier handler may have left pending (fewer than 17 bytes). *)
PendingBuffers == {<< >>, HeadA, <<80>>, <<0, 0>>}

(* Outcomes of the five metric probes: each a value, or null on failure.   *)
MetricsOk ==
    [cpu_temperture |-> "45.1", cpu_voltage |-> "0.85", rssi |-> "-60",
     memUsage |-> "12", diskUsage |-> "30"]

MetricsNull ==
    [cpu_temperture |-> NULL, cpu_voltage |-> NULL, rssi |-> NULL,
     memUsage |-> NULL, diskUsage |-> NULL]

Handlers == 1..MaxHandlers
Days == 0..(MaxTime \div MsPerDay)

(* The time zones the program is run in: UTC, and a change of the local    *)
(* offset, forward or back, in the course of the first day or at the UTC   *)
(* midnight that ends it.                                                  *)
Zones ==
    {Utc} \cup {[at |-> a, shift |-> sh] :
                    a \in {1, MsPerDay}, sh \in {DST_SHIFT, -DST_SHIFT}}

VARIABLES
    now,              \* the clock's last reading, in milliseconds
    dataBuffer,       \* let dataBuffer
    lastSuccessTime,  \* let lastSuccessTime (null or an ISO string)
    sensorLog,        \* ../sensor_log/sensor_log_<date>.json, per date
    nchunks,          \* number of 'data' events emitted so far
    hs,               \* the invocations of the 'data' listener
    generated,        \* history: records in the order the decoder made them
    undelivered,      \* history: payloads whose primary post failed
    overlapped,       \* history: a chunk arrived while a handler was suspended
    finishLen,        \* history: buffer length when a handler last finished
    lastCall,         \* history: the last sendDataToTcpServer call that ended
    posted,           \* history: the bodies of the axios.post calls made
    secondary,        \* history: the records written to the backup TCP server
    BACKUP_TCP_TEST,  \* const BACKUP_TCP_TEST = process.env.BACKUP_TCP_TEST
    TZ,               \* the time zone of the process
    sched             \* the poll timers and the commands written to the port

vars == <<now, dataBuffer, lastSuccessTime, sensorLog, nchunks, hs,
          generated, undelivered, overlapped, finishLen, lastCall,
          posted, secondary, BACKUP_TCP_TEST, TZ, sched>>

(* What the delivery code never writes.                                    *)
fixed == <<BACKUP_TCP_TEST, TZ, sched>>

NoPayload == [sensing_time |-> NULL]

(***************************************************************************)
(* One invocation of the listener: where it is suspended (pc), its locals  *)
(* (ang, payload, lastTime, dates, data, unsent) and what it has done so   *)
(* far.                                                                    *)
(***************************************************************************)
HandlerInit ==
    [pc |-> "new", ang |-> NULL, decLen |-> 0, payload |-> NoPayload,
     lastTime |-> 0, lstAtCheck |-> NoTime, dates |-> << >>,
     unsent |-> << >>, readFailed |-> FALSE, cands |-> << >>,
     tried |-> << >>, discarded |-> 0, errors |-> 0, readings |-> 0,
     pending |-> << >>, chunk |-> << >>, left |-> 0,
     okDays |-> {}, data |-> << >>]

NoCall ==
    [payload |-> NoPayload, primaryOk |-> FALSE, episode |-> FALSE,
     lstAtCheck |-> NoTime, readFailed |-> FALSE, cands |-> << >>,
     tried |-> << >>, resendFailed |-> FALSE]

(***************************************************************************)
(* dailyLogger.save(entry): appends the entry to the log file of the       *)
(* entry's day.                                                            *)
(***************************************************************************)
LoggerSave(log, entry) ==
    [log EXCEPT ![entry.sensing_time.date] = Append(@, entry)]

ErrorRecord(t, reason) == [sensing_time |-> toISOString(t), error |-> reason]

(* if (dataBuffer.slice(0, 3).equals(Buffer.from([0x50, 0x03, 0x0c])))     *)
HasMagic(buf) == Slice(buf, 0, 3) = Magic

(* crc16Modbus(body), with the value for the body of FrameA, which most    *)
(* buffers start with, evaluated once.                                     *)
BodyA == Magic \o PayloadA
CrcBodyA == crc16Modbus(BodyA)

CrcOf(body) == IF body = BodyA THEN CrcBodyA ELSE crc16Modbus(body)

(* crcCalculated.equals(dataBuffer.slice(15, 17))                          *)
CrcMatches(buf) == CrcOf(Slice(buf, 0, 15)) = Slice(buf, 15, 17)

LoopGuardBug(buf) == Len(buf) > FRAME_LEN

(* while (dataBuffer.length >= 17)                                         *)
LoopGuard(buf) == Len(buf) >= FRAME_LEN

ResyncBug(buf, index) == SliceFrom(buf, index + 1)

(* dataBuffer = dataBuffer.slice(index)                                    *)
Resync(buf, index) == SliceFrom(buf, index)

DropFrameBug(buf) == SliceFrom(buf, 1)

(* dataBuffer = dataBuffer.slice(17), after a CRC mismatch                 *)
DropFrame(buf) == SliceFrom(buf, FRAME_LEN)

(***************************************************************************)
(* The decode loop from its head up to the first await or its exit.        *)
(* st = [buf, log, gen, discarded, errors]; the result adds found (the     *)
(* loop is suspended at the awaits of a valid frame) and ang.  An          *)
(* iteration that goes round the loop with the buffer no shorter would be  *)
(* repeated for ever: the result then has spin.                            *)
(***************************************************************************)
RECURSIVE DecodeLoop(_, _)
DecodeLoop(st, t) ==
    IF ~LoopGuard(st.buf)
    THEN [st EXCEPT !.found = FALSE]
    ELSE IF HasMagic(st.buf)
    THEN IF CrcMatches(st.buf)
         THEN [st EXCEPT !.found = TRUE, !.ang = DecodeAngles(st.buf)]
         ELSE LET e == ErrorRecord(t, "CRC validation failed")
                  rest == DropFrame(st.buf)
              IN  IF Len(rest) >= Len(st.buf)
                  THEN [st EXCEPT !.spin = TRUE]
                  ELSE DecodeLoop([st EXCEPT !.buf = rest,
                                             !.log = LoggerSave(st.log, e),
                                             !.gen = Append(st.gen, e),
                                             !.errors = st.errors + 1], t)
    ELSE LET index == IndexOf(st.buf, HEADER_BYTE, 1)
         IN  IF index # -1
             THEN LET rest == Resync(st.buf, index)
                  IN  IF Len(rest) >= Len(st.buf)
                      THEN [st EXCEPT !.spin = TRUE]
                      ELSE DecodeLoop([st EXCEPT
                                          !.buf = rest,
                                          !.discarded = st.discarded + index], t)
             ELSE LET e == ErrorRecord(t, "No valid frame found")
                  IN  [st EXCEPT !.buf = << >>,
                                 !.log = LoggerSave(st.log, e),
                                 !.gen = Append(st.gen, e),
                                 !.errors = st.errors + 1,
                                 !.found = FALSE]

LoopState(buf, log, h) ==
    [buf |-> buf, log |-> log, gen |-> generated, discarded |-> h.discarded,
     errors |-> h.errors, found |-> FALSE, spin |-> FALSE, ang |-> NULL,
     pending |-> h.pending, chunk |-> h.chunk]

(***************************************************************************)
(* The state after handler i ran the loop from st until it suspended at    *)
(* the awaits of a valid frame or left the loop.  t is the clock reading   *)
(* its error records carry; the clock is read only when one is made.       *)
(***************************************************************************)
RunLoop(i, st, t) ==
    LET r == DecodeLoop(st, t)
        h == hs[i]
    IN  /\ (r.errors > h.errors \/ t = now)
        /\ now' = t
        /\ dataBuffer' = r.buf
        /\ sensorLog' = r.log
        /\ generated' = r.gen
        /\ hs' = [hs EXCEPT ![i] =
                    [HandlerInit EXCEPT
                        !.pc = IF r.spin THEN "spin"
                               ELSE IF r.found THEN "metrics" ELSE "done",
                        !.ang = r.ang,
                        !.decLen = IF r.found THEN Len(r.buf) ELSE 0,
                        !.discarded = r.discarded,
                        !.errors = r.errors,
                        !.readings = h.readings + (IF r.found THEN 1 ELSE 0),
                        !.pending = st.pending,
                        !.chunk = st.chunk,
                        !.left = Len(r.buf)]]
        /\ finishLen' = IF r.found THEN finishLen ELSE Len(r.buf)

(***************************************************************************)
(* JavaScript values with their types, and a === b (no conversion): an     *)
(* environment variable is always a string.                                *)
(***************************************************************************)
JsString(v) == [type |-> "string", val |-> v]

JsTrue == [type |-> "boolean", val |-> "true"]

StrictEquals(a, b) == a.type = b.type /\ a.val = b.val

(* The values of BACKUP_TCP_TEST that pass the check of lines 49-52.       *)
BackupSettings == {JsString("true"), JsString("false")}

(***************************************************************************)
(* The poll timers before scheduleSendCommand has run.  P is SAMPLE_RATE   *)
(* as the timers use it, m the clock's seconds*1000 + milliseconds when    *)
(* scheduleSendCommand ran, elapsed the milliseconds since then, due the   *)
(* pending timer's expiry, written the times at which sendCommand wrote    *)
(* the command to the port and failed how many writes reported an error.   *)
(***************************************************************************)
SchedIdle ==
    [phase |-> "idle", P |-> SAMPLE_RATE, m |-> 0, delay |-> 0, elapsed |-> 0,
     due |-> 0, written |-> << >>, failed |-> 0]

(***************************************************************************)
(* Initial state: the module's top-level assignments.                      *)
(***************************************************************************)
Init ==
    /\ now = 0
    /\ dataBuffer = << >>
    /\ lastSuccessTime = NoTime
    /\ sensorLog = [d \in Days |-> << >>]
    /\ nchunks = 0
    /\ hs = [i \in Handlers |-> HandlerInit]
    /\ generated = << >>
    /\ undelivered = {}
    /\ overlapped = FALSE
    /\ finishLen = 0
    /\ lastCall = NoCall
    /\ posted = {}
    /\ secondary = << >>
    /\ BACKUP_TCP_TEST = JsString("true")
    /\ TZ = Utc
    /\ sched = SchedIdle

Suspended(h) == h.pc \notin {"new", "done"}

(* The readings of the clock that may follow the last one.                 *)
ClockReadings == now..MaxTime

(***************************************************************************)
(* port.on('data'): a chunk arrives; the listener runs up to its first     *)
(* await (a valid frame at the head of the buffer) or to the loop's exit.  *)
(* The event is emitted from an I/O callback, so not while a continuation  *)
(* is queued as a microtask.                                               *)
(***************************************************************************)
Data(c, t) ==
    /\ nchunks < MaxHandlers
    /\ \A j \in Handlers : hs[j].pc # "returned"
    /\ nchunks' = nchunks + 1
    /\ overlapped' = (overlapped \/ \E j \in Handlers : Suspended(hs[j]))
    /\ RunLoop(nchunks + 1,
               LoopState(dataBuffer \o c, sensorLog,
                         [hs[nchunks + 1] EXCEPT !.pending = dataBuffer,
                                                 !.chunk = c]), t)
    /\ UNCHANGED <<lastSuccessTime, undelivered, lastCall, posted, secondary,
                   fixed>>

(* const payload = { sensing_time: getPreciseAbsoluteTime(), ... }         *)
Payload(t, ang, m) ==
    [sensing_time |-> toISOString(t),
     ang_x |-> ang.ang_x,
     ang_y |-> ang.ang_y,
     ang_z |-> ang.ang_z,
     device_id |-> DEVICE_ID,
     cpu_temperture |-> m.cpu_temperture,
     cpu_voltage |-> m.cpu_voltage,
     rssi |-> m.rssi,
     memUsage |-> m.memUsage,
     diskUsage |-> m.diskUsage]

(***************************************************************************)
(* The five metric probes have settled: the payload is built with the      *)
(* current precise time and sendDataToTcpServer starts the primary post.   *)
(***************************************************************************)
MetricsDone(i, m, t) ==
    /\ hs[i].pc = "metrics"
    /\ now' = t
    /\ LET payload == Payload(t, hs[i].ang, m)
       IN  /\ hs' = [hs EXCEPT ![i] =
                       [@ EXCEPT !.pc = "post", !.payload = payload]]
           /\ generated' = Append(generated, payload)
           /\ posted' = posted \cup {payload}
    /\ UNCHANGED <<dataBuffer, lastSuccessTime, sensorLog, nchunks,
                   undelivered, overlapped, finishLen, lastCall, secondary,
                   fixed>>

(* backup_payload: "$$$" + the comma-joined fields + "###".                *)
BackupPayload(payload) ==
    <<"$$$", DEVICE_ID, payload.sensing_time, payload.ang_x, payload.ang_y,
      payload.ang_z, payload.cpu_temperture, payload.cpu_voltage,
      payload.rssi, "###">>

FinalLastSuccessTimeBug(payload) == NoTime

(* Line 244: the value lastSuccessTime has when sendDataToTcpServer ends.  *)
FinalLastSuccessTime(payload) == payload.sensing_time

CallOf(h, primaryOk, episode, tried, resendFailed) ==
    [payload |-> h.payload, primaryOk |-> primaryOk, episode |-> episode,
     lstAtCheck |-> h.lstAtCheck, readFailed |-> h.readFailed,
     cands |-> h.cands, tried |-> tried, resendFailed |-> resendFailed]

(***************************************************************************)
(* The end of sendDataToTcpServer: line 244 and the backup transmission.   *)
(* The promise the listener awaits at line 139 is now settled; the         *)
(* listener goes on in a later microtask (Resume), and the continuation of *)
(* another handler that is already queued runs before it.                  *)
(***************************************************************************)
Return(i, call, t) ==
    /\ t = now
    /\ lastSuccessTime' = FinalLastSuccessTime(hs[i].payload)
    /\ lastCall' = call
    /\ hs' = [hs EXCEPT ![i] = [@ EXCEPT !.pc = "returned"]]
    /\ secondary' = IF StrictEquals(BACKUP_TCP_TEST, JsTrue)
                    THEN Append(secondary, BackupPayload(hs[i].payload))
                    ELSE secondary
    /\ UNCHANGED <<now, dataBuffer, sensorLog, generated, finishLen, nchunks,
                   overlapped, fixed>>

(***************************************************************************)
(* The listener's continuation after await sendDataToTcpServer: the        *)
(* payload is saved to the daily log (line 143), 17 bytes are sliced off   *)
(* the buffer (line 144) and the loop goes on to its next await or exit.   *)
(***************************************************************************)
Resume(i, t) ==
    /\ hs[i].pc = "returned"
    /\ RunLoop(i, LoopState(SliceFrom(dataBuffer, FRAME_LEN),
                            LoggerSave(sensorLog, hs[i].payload), hs[i]), t)
    /\ UNCHANGED <<lastSuccessTime, lastCall, secondary, undelivered, posted,
                   nchunks, overlapped, fixed>>

(* The primary post failed: the catch of lines 240-243.                    *)
PostFail(i, t) ==
    /\ hs[i].pc = "post"
    /\ undelivered' = undelivered \cup {hs[i].payload}
    /\ UNCHANGED posted
    /\ Return(i, CallOf([hs[i] EXCEPT !.lstAtCheck = lastSuccessTime],
                        FALSE, FALSE, << >>, FALSE), t)

GapExceedsBug(diff) == 2 * diff >= 3 * SAMPLE_RATE

(* diff > threshold, with threshold = 1.5 * Number(SAMPLE_RATE).           *)
GapExceeds(diff) == 2 * diff > 3 * SAMPLE_RATE

(* if (lastSuccessTime) { ... if (diff > threshold)                        *)
StartsEpisode(lst, payload) ==
    /\ lst # NoTime
    /\ GapExceeds(DateParse(payload.sensing_time) - DateParse(lst))

(* The primary post succeeded and no episode starts.                       *)
PostOkNoGap(i, t) ==
    /\ hs[i].pc = "post"
    /\ ~StartsEpisode(lastSuccessTime, hs[i].payload)
    /\ UNCHANGED <<undelivered, posted>>
    /\ Return(i, CallOf([hs[i] EXCEPT !.lstAtCheck = lastSuccessTime],
                        TRUE, FALSE, << >>, FALSE), t)

(* The primary post succeeded and a backfill episode starts: the date      *)
(* range is computed and the first log file read is awaited.               *)
PostOkGap(i) ==
    /\ hs[i].pc = "post"
    /\ StartsEpisode(lastSuccessTime, hs[i].payload)
    /\ hs' = [hs EXCEPT ![i] =
                [@ EXCEPT !.pc = "readFile",
                          !.lstAtCheck = lastSuccessTime,
                          !.lastTime = DateParse(lastSuccessTime),
                          !.dates = getDateRange(
                              DatePart(DateParse(lastSuccessTime)),
                              DatePart(DateParse(hs[i].payload.sensing_time)),
                              TZ),
                          !.unsent = << >>]]
    /\ UNCHANGED <<now, dataBuffer, lastSuccessTime, sensorLog, nchunks,
                   generated, undelivered, overlapped, finishLen, lastCall,
                   posted, secondary, fixed>>

(***************************************************************************)
(* The filter of lines 212-219 on one entry of a log file.                 *)
(***************************************************************************)
IsCandidateBug(entry, lastTime, currentPayloadTime) ==
    /\ DateParse(entry.sensing_time) >= lastTime
    /\ DateParse(entry.sensing_time) <= currentPayloadTime
    /\ "ang_x" \in DOMAIN entry
    /\ "ang_y" \in DOMAIN entry
    /\ "ang_z" \in DOMAIN entry

IsCandidate(entry, lastTime, currentPayloadTime) ==
    /\ DateParse(entry.sensing_time) > lastTime
    /\ DateParse(entry.sensing_time) <= currentPayloadTime
    /\ "ang_x" \in DOMAIN entry
    /\ "ang_y" \in DOMAIN entry
    /\ "ang_z" \in DOMAIN entry

RECURSIVE FilterEntries(_, _, _)
FilterEntries(logEntries, lastTime, currentPayloadTime) ==
    IF logEntries = << >> THEN << >>
    ELSE (IF IsCandidate(Head(logEntries), lastTime, currentPayloadTime)
          THEN <<Head(logEntries)>> ELSE << >>)
         \o FilterEntries(Tail(logEntries), lastTime, currentPayloadTime)

ReverseBug(seq) == seq

(* unsentEntries.reverse()                                                 *)
Reverse(seq) == [k \in 1..Len(seq) |-> seq[Len(seq) + 1 - k]]

(***************************************************************************)
(* One date of the loop is done, with the entries it contributed: the read *)
(* of the next date's file is started.  After the last date the list is    *)
(* reversed and the resend loop starts; with no entry to resend the        *)
(* function runs on to its end.                                            *)
(***************************************************************************)
AfterRead(i, filtered, failed, t) ==
    LET h == [hs[i] EXCEPT !.readFailed = @ \/ failed,
                           !.okDays = IF failed THEN @
                                      ELSE @ \cup {Head(hs[i].dates)},
                           !.data = << >>]
        unsent == h.unsent \o filtered
        rest == Tail(h.dates)
        reversed == Reverse(unsent)
    IN  IF rest # << >>
        THEN /\ t = now
             /\ hs' = [hs EXCEPT ![i] =
                         [h EXCEPT !.pc = "readFile", !.dates = rest,
                                   !.unsent = unsent]]
             /\ UNCHANGED <<now, dataBuffer, lastSuccessTime, sensorLog,
                            nchunks, generated, overlapped, finishLen,
                            lastCall, posted, secondary, fixed>>
        ELSE IF reversed # << >>
        THEN /\ t = now
             /\ hs' = [hs EXCEPT ![i] =
                         [h EXCEPT !.pc = "resend", !.dates = rest,
                                   !.unsent = reversed, !.cands = reversed]]
             /\ posted' = posted \cup {Head(reversed)}
             /\ UNCHANGED <<now, dataBuffer, lastSuccessTime, sensorLog,
                            nchunks, generated, overlapped, finishLen,
                            lastCall, secondary, fixed>>
        ELSE /\ UNCHANGED posted
             /\ Return(i, CallOf(h, TRUE, TRUE, << >>, FALSE), t)

(***************************************************************************)
(* await fs.promises.readFile (line 209): the file of the next date is     *)
(* read, and data is what it held then.  The handler goes on only later,   *)
(* so what another handler saves to the file meanwhile is not in data.     *)
(***************************************************************************)
ReadFileOk(i) ==
    /\ hs[i].pc = "readFile"
    /\ sensorLog[Head(hs[i].dates)] # << >>
    /\ hs' = [hs EXCEPT ![i] =
                [@ EXCEPT !.pc = "parse",
                          !.data = sensorLog[Head(hs[i].dates)]]]
    /\ UNCHANGED <<now, dataBuffer, lastSuccessTime, sensorLog, nchunks,
                   generated, undelivered, overlapped, finishLen, lastCall,
                   posted, secondary, fixed>>

(* The handler goes on with what was read: JSON.parse, the filter and the  *)
(* concat of lines 210-220.                                                *)
FilterLogEntries(i, t) ==
    /\ hs[i].pc = "parse"
    /\ AfterRead(i, FilterEntries(hs[i].data, hs[i].lastTime,
                                  DateParse(hs[i].payload.sensing_time)),
                 FALSE, t)
    /\ UNCHANGED undelivered

(* The file is missing, or what was read is not JSON: the catch of lines   *)
(* 221-223.                                                                *)
ReadFileFail(i, t) ==
    /\ hs[i].pc \in {"readFile", "parse"}
    /\ AfterRead(i, << >>, TRUE, t)
    /\ UNCHANGED undelivered

(* lastSuccessTime = entry.sensing_time (line 231); lst is its old value.  *)
ResentTime(lst, entry) == entry.sensing_time

(***************************************************************************)
(* The post of the next backfill entry succeeded: line 231, then the next  *)
(* entry's post, or the end of the function after the last one.            *)
(***************************************************************************)
ResendOk(i, t) ==
    /\ hs[i].pc = "resend"
    /\ undelivered' = undelivered \ {Head(hs[i].unsent)}
    /\ IF Tail(hs[i].unsent) # << >>
       THEN /\ t = now
            /\ lastSuccessTime' = ResentTime(lastSuccessTime, Head(hs[i].unsent))
            /\ hs' = [hs EXCEPT ![i] =
                        [@ EXCEPT !.unsent = Tail(@),
                                  !.tried = Append(@, Head(hs[i].unsent))]]
            /\ posted' = posted \cup {Head(Tail(hs[i].unsent))}
            /\ UNCHANGED <<now, dataBuffer, sensorLog, nchunks, generated,
                           overlapped, finishLen, lastCall, secondary, fixed>>
       ELSE /\ UNCHANGED posted
            /\ Return(i, CallOf(hs[i], TRUE, TRUE,
                                Append(hs[i].tried, Head(hs[i].unsent)), FALSE),
                      t)

(* The post of a backfill entry failed: break.                             *)
ResendFail(i, t) ==
    /\ hs[i].pc = "resend"
    /\ UNCHANGED <<undelivered, posted>>
    /\ Return(i, CallOf(hs[i], TRUE, TRUE,
                        Append(hs[i].tried, Head(hs[i].unsent)), TRUE), t)

(* The chunks of a run: at most n of them.                                 *)
DataUpTo(n, c, t) == nchunks < n /\ Data(c, t)

Next ==
    \/ \E c \in Chunks, t \in ClockReadings : DataUpTo(MaxChunks, c, t)
    \/ \E i \in Handlers, t \in ClockReadings : MetricsDone(i, MetricsOk, t)
    \/ \E i \in Handlers, t \in ClockReadings : PostFail(i, t)
    \/ \E i \in Handlers, t \in ClockReadings : PostOkNoGap(i, t)
    \/ \E i \in Handlers : PostOkGap(i)
    \/ \E i \in Handlers : ReadFileOk(i)
    \/ \E i \in Handlers, t \in ClockReadings : FilterLogEntries(i, t)
    \/ \E i \in Handlers, t \in ClockReadings : ReadFileFail(i, t)
    \/ \E i \in Handlers, t \in ClockReadings : ResendOk(i, t)
    \/ \E i \in Handlers, t \in ClockReadings : ResendFail(i, t)
    \/ \E i \in Handlers, t \in ClockReadings : Resume(i, t)

Spec == Init /\ [][Next]_vars

(***************************************************************************)
(* The decoder on its own: a pending buffer, chunks of garbage and frames, *)
(* and every reading sent within the millisecond it was decoded in.        *)
(***************************************************************************)
InitDecode ==
    /\ now = 0
    /\ dataBuffer \in PendingBuffers
    /\ lastSuccessTime = NoTime
    /\ sensorLog = [d \in Days |-> << >>]
    /\ nchunks = 0
    /\ hs = [i \in Handlers |-> HandlerInit]
    /\ generated = << >>
    /\ undelivered = {}
    /\ overlapped = FALSE
    /\ finishLen = 0
    /\ lastCall = NoCall
    /\ posted = {}
    /\ secondary = << >>
    /\ BACKUP_TCP_TEST = JsString("true")
    /\ TZ = Utc
    /\ sched = SchedIdle

DataBounded(c) == DataUpTo(MaxDecodeChunks, c, now)

Delivery ==
    \/ \E i \in Handlers : MetricsDone(i, MetricsOk, now)
    \/ \E i \in Handlers : PostOkNoGap(i, now)
    \/ \E i \in Handlers : Resume(i, now)

NextDecode == (\E c \in DecodeChunks : DataBounded(c)) \/ Delivery

SpecDecode == InitDecode /\ [][NextDecode]_vars

(* The CRC check on its own: 17-byte candidates on an empty buffer, with   *)
(* the metric probes of an accepted one succeeding or failing.             *)
NextCrc ==
    \/ \E c \in CrcChunks : DataBounded(c)
    \/ \E i \in Handlers : MetricsDone(i, MetricsNull, now)
    \/ Delivery

SpecCrc == Init /\ [][NextCrc]_vars

(***************************************************************************)
(* sendDataToTcpServer on its own: one Reading decoded at time now is about*)
(* to be posted, with the daily log files and the lastSuccessTime that     *)
(* earlier operation (or a restart, which clears lastSuccessTime and keeps *)
(* the files) left behind.  The files hold the records saved so far in the *)
(* order they were saved, which is the order in which the posts returned:  *)
(* not necessarily the order of their times, and a record can be there     *)
(* twice or share its millisecond with another.                            *)
(***************************************************************************)
ReadingAt(t) == Payload(t, DecodeAngles(FrameA), MetricsOk)

EntriesAt(t) == {ReadingAt(t), ErrorRecord(t, "CRC validation failed")}

(* The records that can have been made up to time n.                       *)
EntriesUpTo(n) == UNION {EntriesAt(t) : t \in 0..n}

(* The sequences of at most k of them: the saves made so far, in order.    *)
RECURSIVE SavesUpTo(_, _)
SavesUpTo(n, k) ==
    IF k = 0 THEN {<< >>}
    ELSE LET shorter == SavesUpTo(n, k - 1)
         IN  shorter \cup {Append(saves, e) : saves \in shorter,
                                              e \in EntriesUpTo(n)}

(* The log files after the saves of a sequence.                            *)
RECURSIVE SaveAll(_, _)
SaveAll(log, saves) ==
    IF saves = << >> THEN log
    ELSE SaveAll(LoggerSave(log, Head(saves)), Tail(saves))

(* The log files that exist at time n.                                     *)
Logs(n) ==
    {SaveAll([d \in Days |-> << >>], saves) : saves \in SavesUpTo(n, MaxLogLen)}

InitBackfill ==
    /\ now \in 0..MaxTime
    /\ dataBuffer = FrameA
    /\ lastSuccessTime \in {NoTime} \cup {toISOString(u) : u \in 0..now}
    /\ sensorLog \in Logs(now)
    /\ nchunks = 1
    /\ hs = [i \in Handlers |->
                IF i = 1
                THEN [HandlerInit EXCEPT !.pc = "post",
                                         !.ang = DecodeAngles(FrameA),
                                         !.decLen = FRAME_LEN,
                                         !.payload = ReadingAt(now),
                                         !.readings = 1,
                                         !.chunk = FrameA,
                                         !.left = FRAME_LEN]
                ELSE HandlerInit]
    /\ generated = <<ReadingAt(now)>>
    /\ undelivered = {}
    /\ overlapped = FALSE
    /\ finishLen = 0
    /\ lastCall = NoCall
    /\ posted = {ReadingAt(now)}
    /\ secondary = << >>
    /\ BACKUP_TCP_TEST = JsString("true")
    /\ TZ \in Zones
    /\ sched = SchedIdle

NextBackfill ==
    \/ \E i \in Handlers : PostFail(i, now)
    \/ \E i \in Handlers : PostOkNoGap(i, now)
    \/ \E i \in Handlers : PostOkGap(i)
    \/ \E i \in Handlers : ReadFileOk(i)
    \/ \E i \in Handlers : FilterLogEntries(i, now)
    \/ \E i \in Handlers : ReadFileFail(i, now)
    \/ \E i \in Handlers : ResendOk(i, now)
    \/ \E i \in Handlers : ResendFail(i, now)
    \/ \E i \in Handlers : Resume(i, now)

SpecBackfill == InitBackfill /\ [][NextBackfill]_vars

(***************************************************************************)
(* sendDataToTcpServer with the secondary transmission configured on or    *)
(* off: one Reading about to be posted, at most one record in the log.     *)
(***************************************************************************)
InitSecondary ==
    /\ now \in 0..MaxTime
    /\ dataBuffer = FrameA
    /\ lastSuccessTime \in {NoTime} \cup {toISOString(u) : u \in 0..now}
    /\ sensorLog \in {SaveAll([d \in Days |-> << >>], saves) :
                         saves \in SavesUpTo(now, 1)}
    /\ nchunks = 1
    /\ hs = [i \in Handlers |->
                IF i = 1
                THEN [HandlerInit EXCEPT !.pc = "post",
                                         !.ang = DecodeAngles(FrameA),
                                         !.decLen = FRAME_LEN,
                                         !.payload = ReadingAt(now),
                                         !.readings = 1,
                                         !.chunk = FrameA,
                                         !.left = FRAME_LEN]
                ELSE HandlerInit]
    /\ generated = <<ReadingAt(now)>>
    /\ undelivered = {}
    /\ overlapped = FALSE
    /\ finishLen = 0
    /\ lastCall = NoCall
    /\ posted = {ReadingAt(now)}
    /\ secondary = << >>
    /\ BACKUP_TCP_TEST \in BackupSettings
    /\ TZ = Utc
    /\ sched = SchedIdle

SpecSecondary == InitSecondary /\ [][NextBackfill]_vars

(***************************************************************************)
(* Definitions shared by the properties.                                   *)
(***************************************************************************)
IsReading(e) == "ang_x" \in DOMAIN e

Range(seq) == {seq[k] : k \in 1..Len(seq)}

Readings == SelectSeq(generated, IsReading)

InLog(e) == \E d \in Days : e \in Range(sensorLog[d])

(* a is a subsequence of b: the elements of a, in order, among those of b. *)
RECURSIVE IsSubseq(_, _)
IsSubseq(a, b) ==
    IF a = << >> THEN TRUE
    ELSE IF b = << >> THEN FALSE
    ELSE IF Head(a) = Head(b) THEN IsSubseq(Tail(a), Tail(b))
    ELSE IsSubseq(a, Tail(b))

(* Successive Readings are exactly one sample period apart.                *)
Regular ==
    \A k \in 1..(Len(Readings) - 1) :
        DateParse(Readings[k + 1].sensing_time)
            - DateParse(Readings[k].sensing_time) = SAMPLE_RATE

(***************************************************************************)
(* A Reading's delivery is confirmed once a post of it has succeeded: it   *)
(* is not awaiting its primary post and no failure of it is outstanding.   *)
(***************************************************************************)
Delivered(r) ==
    /\ r \notin undelivered
    /\ \A i \in Handlers :
           ~(hs[i].pc \in {"metrics", "post"} /\ hs[i].payload = r)

(* The place of the last call's Reading among the Readings.                *)
PlaceOfLastCall ==
    CHOOSE k \in 1..Len(Readings) : Readings[k] = lastCall.payload

(***************************************************************************)
(* C1: with Readings one sample period apart and handlers not overlapping, *)
(* once sendDataToTcpServer has returned from a successful primary send,   *)
(* the Readings generated between an earlier confirmed-delivered Reading   *)
(* and the one just sent have all been delivered, or the call ran a        *)
(* backfill episode that attempted every one of them that failed.          *)
(***************************************************************************)
C1_Backfilled ==
    (~overlapped /\ Regular /\ lastCall.primaryOk) =>
        \A k \in 1..(PlaceOfLastCall - 1) :
            Delivered(Readings[k]) =>
                \A j \in (k + 1)..(PlaceOfLastCall - 1) :
                    (Readings[j] \in undelivered /\ InLog(Readings[j])) =>
                        (lastCall.episode
                            /\ Readings[j] \in Range(lastCall.tried))

(***************************************************************************)
(* C2: a failed primary send leaves lastSuccessTime as it was.             *)
(***************************************************************************)
C2_FailKeepsLastSuccessTime ==
    [][\A i \in Handlers, t \in ClockReadings :
          PostFail(i, t) => lastSuccessTime' = lastSuccessTime]_vars

(***************************************************************************)
(* C3: no chunk's handler starts (and so touches dataBuffer) while the     *)
(* handler of an earlier chunk is suspended at an await.                   *)
(***************************************************************************)
C3_Serialized == ~overlapped

(***************************************************************************)
(* C4: once set, lastSuccessTime never moves to an earlier timestamp.      *)
(***************************************************************************)
C4_NonDecreasing ==
    [][lastSuccessTime # NoTime =>
          DateParse(lastSuccessTime') >= DateParse(lastSuccessTime)]_vars

(***************************************************************************)
(* C5: every record the decoder generated is in the daily log once (no     *)
(* more often than generated, and as often once no handler is suspended),  *)
(* and each day's file lists its records in generation order.              *)
(***************************************************************************)
Count(seq, e) == Cardinality({k \in 1..Len(seq) : seq[k] = e})

LogCount(e) == Count(sensorLog[e.sensing_time.date], e)

C5_LoggedOnceInOrder ==
    /\ \A e \in Range(generated) : LogCount(e) <= Count(generated, e)
    /\ (\A i \in Handlers : ~Suspended(hs[i])) =>
           \A e \in Range(generated) : LogCount(e) = Count(generated, e)
    /\ \A d \in Days : IsSubseq(sensorLog[d], generated)

(***************************************************************************)
(* C6: a Reading is decoded only from a buffer of at least 17 bytes, and   *)
(* whenever a handler has left the decode loop fewer than 17 bytes are     *)
(* pending.                                                                *)
(***************************************************************************)
C6_FrameLength ==
    /\ \A i \in Handlers : Suspended(hs[i]) => hs[i].decLen >= FRAME_LEN
    /\ \A i \in Handlers : hs[i].pc = "done" => hs[i].left < FRAME_LEN
    /\ finishLen < FRAME_LEN

(* A frame that arrived in two chunks is decoded once all 17 bytes are in. *)
C6_Witness ==
    \E i \in Handlers :
        /\ hs[i].pc = "metrics"
        /\ hs[i].pending = HeadA
        /\ hs[i].chunk = TailA
        /\ hs[i].decLen = FRAME_LEN

(***************************************************************************)
(* CRC16/Modbus as its definition gives it, on a register held as the set  *)
(* of its one bits: polynomial 0xA001 (bits 15, 13, 0), register 0xFFFF.   *)
(***************************************************************************)
RefPoly == {0, 13, 15}

RefBits(byte) == {k \in 0..7 : (byte \div (2 ^ k)) % 2 = 1}

RefXor(a, b) == (a \ b) \cup (b \ a)

RefRound(reg) ==
    LET shifted == {k - 1 : k \in reg \ {0}}
    IN  IF 0 \in reg THEN RefXor(shifted, RefPoly) ELSE shifted

(* The register after n more rounds (a register is a set of bit places).   *)
RECURSIVE RefRounds(_, _)
RefRounds(reg, n) ==
    IF n = 0 THEN reg
    ELSE LET next == RefRound(reg)
         IN  CASE next \subseteq 0..15 -> RefRounds(next, n - 1)

RECURSIVE RefBytes(_, _, _)
RefBytes(reg, buf, i) ==
    IF i > Len(buf) THEN reg
    ELSE LET next == RefRounds(RefXor(reg, RefBits(buf[i])), 8)
         IN  CASE next \subseteq 0..15 -> RefBytes(next, buf, i + 1)

RECURSIVE RefValue(_)
RefValue(reg) ==
    IF reg = {} THEN 0
    ELSE LET k == CHOOSE b \in reg : TRUE IN (2 ^ k) + RefValue(reg \ {k})

RefCrc16(buf) == RefValue(RefBytes(0..15, buf, 1))

(* Bytes [15,17) of a candidate read little-endian.                        *)
RefTrailer(c) == c[16] + 256 * c[17]

(* The 17-byte candidates with the magic header, alone in the buffer.      *)
IsCandidateFrame(h) ==
    /\ h.pending = << >>
    /\ Len(h.chunk) = FRAME_LEN
    /\ SubSeq(h.chunk, 1, 3) = <<80, 3, 12>>

(***************************************************************************)
(* C7: a 17-byte candidate with the magic header is accepted as a Reading  *)
(* iff CRC16/Modbus over bytes [0,15) equals bytes [15,17) little-endian;  *)
(* a frame with one payload bit flipped is rejected with an ErrorRecord.   *)
(***************************************************************************)
C7_CrcAcceptance ==
    \A i \in Handlers :
        IsCandidateFrame(hs[i]) =>
            /\ (hs[i].readings >= 1) <=>
                   (RefCrc16(SubSeq(hs[i].chunk, 1, 15)) = RefTrailer(hs[i].chunk))
            /\ hs[i].chunk \in FlippedFrames =>
                   (hs[i].readings = 0 /\ hs[i].errors = 1)

(* A frame with one payload bit flipped was rejected.                      *)
C7_Witness ==
    \E i \in Handlers :
        /\ IsCandidateFrame(hs[i])
        /\ hs[i].chunk \in FlippedFrames
        /\ hs[i].pc = "done"
        /\ hs[i].readings = 0
        /\ hs[i].errors = 1

(***************************************************************************)
(* Resynchronization: the handlers that finished a buffer made of garbage  *)
(* followed by a valid frame.                                              *)
(***************************************************************************)
GarbageOf(h) == SubSeq(h.chunk, 1, Len(h.chunk) - FRAME_LEN)

IsGarbageThenFrame(h) ==
    /\ ~overlapped
    /\ h.pc = "done"
    /\ h.pending = << >>
    /\ Len(h.chunk) > FRAME_LEN
    /\ GarbageOf(h) \in Garbage
    /\ h.chunk = GarbageOf(h) \o FrameA

Resynchronized(h) ==
    /\ h.discarded = Len(GarbageOf(h))
    /\ h.readings = 1
    /\ h.errors = 0
    /\ h.left = 0

(* The garbage holds the whole header 0x50 0x03 0x0C somewhere.            *)
HoldsHeader(g) ==
    \E j \in 1..(Len(g) - 2) : SubSeq(g, j, j + 2) = <<80, 3, 12>>

(***************************************************************************)
(* C8 as stated: k > 0 garbage bytes followed by a valid frame are         *)
(* processed by discarding exactly k bytes and emitting exactly one        *)
(* Reading, with no ErrorRecord and an empty buffer afterwards, whatever   *)
(* the garbage holds.                                                      *)
(***************************************************************************)
C8_ResyncAnyGarbage ==
    \A i \in Handlers : IsGarbageThenFrame(hs[i]) => Resynchronized(hs[i])

(***************************************************************************)
(* C8 amended: the same, for garbage that does not hold the whole header   *)
(* 0x50 0x03 0x0C (it may hold the header's first byte 0x50).              *)
(***************************************************************************)
C8_ResyncNoHeader ==
    \A i \in Handlers :
        (IsGarbageThenFrame(hs[i]) /\ ~HoldsHeader(GarbageOf(hs[i])))
            => Resynchronized(hs[i])

(* Garbage with an embedded 0x50 was discarded and the frame decoded.      *)
C8_Witness ==
    \E i \in Handlers :
        /\ IsGarbageThenFrame(hs[i])
        /\ ~HoldsHeader(GarbageOf(hs[i]))
        /\ 80 \in Range(GarbageOf(hs[i]))
        /\ Len(GarbageOf(hs[i])) >= 2
        /\ Resynchronized(hs[i])

(***************************************************************************)
(* The gap of a call: its Reading's time minus the lastSuccessTime the     *)
(* call found, in milliseconds.                                            *)
(***************************************************************************)
GapOf(payload, lst) ==
    (payload.sensing_time.date * MsPerDay + payload.sensing_time.time)
        - (lst.date * MsPerDay + lst.time)

(* gap > 1.5 * P, in halves of a millisecond.                              *)
BeyondThreshold(payload, lst) ==
    lst # NoTime /\ 2 * GapOf(payload, lst) > 3 * SAMPLE_RATE

InEpisode(h) == h.pc \in {"readFile", "parse", "resend"}

(***************************************************************************)
(* C9: a backfill episode starts for a Reading iff its primary send        *)
(* succeeded, lastSuccessTime was set and the gap is strictly greater than *)
(* 1.5 P; no backfill entry is sent after a failed primary send or when    *)
(* lastSuccessTime was not set.                                            *)
(***************************************************************************)
C9_EpisodeIffGap ==
    /\ \A i \in Handlers :
           InEpisode(hs[i]) => BeyondThreshold(hs[i].payload, hs[i].lstAtCheck)
    /\ lastCall # NoCall =>
           /\ lastCall.episode <=>
                  (lastCall.primaryOk
                      /\ BeyondThreshold(lastCall.payload, lastCall.lstAtCheck))
           /\ (~lastCall.primaryOk \/ lastCall.lstAtCheck = NoTime)
                  => lastCall.tried = << >>

(* A call whose gap was 1.5 P + 1 ms ran an episode and resent an entry.   *)
C9_Witness ==
    /\ lastCall # NoCall
    /\ lastCall.episode
    /\ lastCall.tried # << >>
    /\ 2 * GapOf(lastCall.payload, lastCall.lstAtCheck) = 3 * SAMPLE_RATE + 2

(***************************************************************************)
(* The log entries inside the window (lst, cur] that carry angles, listed  *)
(* from the last entry of day d at position k back to the first entry of   *)
(* the first day.                                                          *)
(***************************************************************************)
InWindow(e, lst, cur) ==
    /\ IsReading(e)
    /\ GapOf(e, lst) > 0
    /\ GapOf(cur, e.sensing_time) >= 0

RECURSIVE Backwards(_, _, _, _)
Backwards(d, k, lst, cur) ==
    IF k = 0
    THEN IF d = 0 THEN << >>
         ELSE Backwards(d - 1, Len(sensorLog[d - 1]), lst, cur)
    ELSE (IF InWindow(sensorLog[d][k], lst, cur)
          THEN <<sensorLog[d][k]>> ELSE << >>)
         \o Backwards(d, k - 1, lst, cur)

NewestFirst(h) ==
    LET last == CHOOSE d \in Days : \A e \in Days : e <= d
    IN  Backwards(last, Len(sensorLog[last]), h.lstAtCheck, h.payload)

(* The backfill posts handler h has started so far, in order.              *)
Sends(h) == h.tried \o <<Head(h.unsent)>>

(***************************************************************************)
(* C10: the backfill posts of an episode go out one at a time in the       *)
(* reverse of the day-by-day concatenation of the filtered log entries:    *)
(* newest first, and all of them when every file could be read.            *)
(***************************************************************************)
C10_NewestFirst ==
    \A i \in Handlers :
        hs[i].pc = "resend" =>
            /\ IsSubseq(Sends(hs[i]), NewestFirst(hs[i]))
            /\ ~hs[i].readFailed =>
                   Sends(hs[i]) =
                       SubSeq(NewestFirst(hs[i]), 1, Len(Sends(hs[i])))
            /\ (~hs[i].readFailed /\ Len(hs[i].unsent) = 1) =>
                   Sends(hs[i]) = NewestFirst(hs[i])

(* Two entries on each of two days are sent t4, t3, t2, t1.                *)
C10_Witness ==
    \E i \in Handlers :
        /\ hs[i].pc = "resend"
        /\ Len(Sends(hs[i])) = 4
        /\ Len(hs[i].unsent) = 1
        /\ Sends(hs[i])[1].sensing_time.date = Sends(hs[i])[2].sensing_time.date
        /\ Sends(hs[i])[3].sensing_time.date = Sends(hs[i])[4].sensing_time.date
        /\ Sends(hs[i])[2].sensing_time.date > Sends(hs[i])[3].sensing_time.date
        /\ \A k \in 1..3 :
               GapOf(Sends(hs[i])[k], Sends(hs[i])[k + 1].sensing_time) > 0

(***************************************************************************)
(* C11: when the post of the j-th backfill candidate fails, lastSuccessTime*)
(* is then the sensing_time of candidate j-1 (for j = 1 the value the      *)
(* episode found), the call ends without posting a later candidate, and    *)
(* lastSuccessTime becomes the current Reading's sensing_time.             *)
(***************************************************************************)
C11_PartialBackfill ==
    [][\A i \in Handlers :
          ResendFail(i, now) =>
              LET j == Len(hs[i].tried) + 1
              IN  /\ hs[i].cands[j] = Head(hs[i].unsent)
                  /\ lastSuccessTime =
                         (IF j = 1 THEN hs[i].lstAtCheck
                          ELSE hs[i].cands[j - 1].sensing_time)
                  /\ lastCall'.tried = SubSeq(hs[i].cands, 1, j)
                  /\ posted' = posted
                  /\ hs'[i].pc = "returned"
                  /\ lastSuccessTime' = hs[i].payload.sensing_time]_vars

(***************************************************************************)
(* The handlers suspended on a valid frame whose payload bytes at offsets  *)
(* 3..6 are 0x64 0x00 0x00 0x00 (the frame is at the head of the buffer    *)
(* until the handler slices it off).                                       *)
(***************************************************************************)
DecodingExample(h) ==
    /\ ~overlapped
    /\ Suspended(h)
    /\ Len(dataBuffer) >= FRAME_LEN
    /\ SubSeq(dataBuffer, 4, 7) = <<100, 0, 0, 0>>

AngXIs(h, text) ==
    /\ h.ang.ang_x = text
    /\ h.pc = "post" => h.payload.ang_x = text

(***************************************************************************)
(* C12 as stated: payload bytes 0x64 0x00 0x00 0x00 at offsets 3..6 of a   *)
(* valid frame decode to ang_x = "0.100".                                  *)
(***************************************************************************)
C12_DecodesToTenth ==
    \A i \in Handlers : DecodingExample(hs[i]) => AngXIs(hs[i], "0.100")

(***************************************************************************)
(* C12 amended: in the byte order offset+2, offset+3, offset+0, offset+1   *)
(* the bytes are 00 00 64 00, the integer 25600, and ang_x is "25.600".    *)
(***************************************************************************)
C12_DecodesTo25600 ==
    \A i \in Handlers :
        DecodingExample(hs[i]) =>
            /\ (dataBuffer[6] * 16777216) + (dataBuffer[7] * 65536)
                   + (dataBuffer[4] * 256) + dataBuffer[5] = 25600
            /\ AngXIs(hs[i], "25.600")

(* The example frame was decoded and its payload built.                    *)
C12_Witness ==
    \E i \in Handlers :
        /\ DecodingExample(hs[i])
        /\ hs[i].pc = "post"
        /\ hs[i].payload.ang_x = "25.600"

(***************************************************************************)
(* C13: every record the decoder generated, ErrorRecord or Reading, has    *)
(* been handed to the primary sink as the body of a request.               *)
(***************************************************************************)
C13_AllOutputsPosted == \A e \in Range(generated) : e \in posted

(***************************************************************************)
(* The days from day(lastSuccessTime) to day(reading.sensing_time), and    *)
(* the entries of the logs of some days that lie in the episode's window   *)
(* and carry the three angles.                                             *)
(***************************************************************************)
DayRange(h) ==
    {d \in Days : h.lstAtCheck.date <= d /\ d <= h.payload.sensing_time.date}

WindowEntries(days, h) ==
    {e \in UNION {Range(sensorLog[d]) : d \in days} :
        InWindow(e, h.lstAtCheck, h.payload)}

(* The candidates handler h has collected so far.                          *)
Collected(h) == IF h.pc \in {"readFile", "parse"} THEN h.unsent ELSE h.cands

(***************************************************************************)
(* C14: the candidates of an episode are exactly the entries, each as      *)
(* often as its file lists it, of the logs of the days of the range that   *)
(* could be read whose time is in (lastSuccessTime, reading.sensing_time]  *)
(* and which carry the angles;                                             *)
(* every day of the range is read unless its file fails, and a failed day  *)
(* leaves the other days' candidates in place.  An episode that ends with  *)
(* no candidate found none (the window then holds only the current         *)
(* Reading, logged after the call).                                        *)
(***************************************************************************)
C14_CandidatesExact ==
    /\ \A i \in Handlers :
           InEpisode(hs[i]) =>
               /\ Range(Collected(hs[i])) = WindowEntries(hs[i].okDays, hs[i])
               /\ \A e \in Range(Collected(hs[i])) :
                      Count(Collected(hs[i]), e) = LogCount(e)
               /\ hs[i].okDays \cup Range(hs[i].dates) \subseteq DayRange(hs[i])
               /\ ~hs[i].readFailed =>
                      hs[i].okDays \cup Range(hs[i].dates) = DayRange(hs[i])
    /\ (lastCall.episode /\ lastCall.cands = << >> /\ ~lastCall.readFailed) =>
           \A d \in Days : \A k \in 1..Len(sensorLog[d]) :
               InWindow(sensorLog[d][k], lastCall.lstAtCheck, lastCall.payload)
                   => (d = lastCall.payload.sensing_time.date
                          /\ k = Len(sensorLog[d]))

(* One day's file failed, the other day gave candidates, and the logs hold *)
(* an error record and a Reading that were left out.                       *)
C14_Witness ==
    \E i \in Handlers :
        /\ hs[i].pc = "resend"
        /\ hs[i].readFailed
        /\ hs[i].okDays # {}
        /\ \E d \in hs[i].okDays : \E e \in Range(sensorLog[d]) :
               ~IsReading(e) /\ GapOf(e, hs[i].lstAtCheck) > 0
        /\ \E d \in hs[i].okDays : \E e \in Range(sensorLog[d]) :
               IsReading(e) /\ GapOf(e, hs[i].lstAtCheck) <= 0

(***************************************************************************)
(* Frame errors.  B is the buffer the loop starts on; the three cases are  *)
(* told apart from B's bytes, the CRC by the bitwise reference.            *)
(***************************************************************************)
ErrorsOf(seq, reason) ==
    Cardinality({k \in 1..Len(seq) :
                    "error" \in DOMAIN seq[k] /\ seq[k].error = reason})

HeadIsMagic(B) == Len(B) >= FRAME_LEN /\ SubSeq(B, 1, 3) = <<80, 3, 12>>

HeadIsValid(B) ==
    /\ HeadIsMagic(B)
    /\ RefCrc16(SubSeq(B, 1, 15)) = RefTrailer(SubSeq(B, 1, FRAME_LEN))

(* The offsets k > 0 at which B holds 0x50.                                *)
LaterHeaders(B) == {k \in 1..(Len(B) - 1) : B[k + 1] = 80}

FirstLaterHeader(B) ==
    CHOOSE k \in LaterHeaders(B) : \A l \in LaterHeaders(B) : k <= l

(***************************************************************************)
(* C15: when a chunk arrives, whatever the decoder does before it reaches  *)
(* a valid frame or leaves the loop changes only the buffer and the log:   *)
(* nothing is posted and lastSuccessTime stays.  A magic header with a CRC *)
(* mismatch gives one "CRC validation failed" record first, costs exactly  *)
(* 17 bytes, and decoding goes on with the rest; a header mismatch with no *)
(* later 0x50 gives exactly one "No valid frame found" record, an empty    *)
(* buffer and the end of the loop; a header mismatch with 0x50 at k > 0    *)
(* discards exactly k bytes and emits nothing.  Every byte removed is      *)
(* accounted for by a 17-byte CRC discard or a resynchronization.          *)
(***************************************************************************)
C15_FrameErrors ==
    [][nchunks' = nchunks + 1 =>
          LET i     == nchunks'
              B     == dataBuffer \o hs'[i].chunk
              added == SubSeq(generated', Len(generated) + 1, Len(generated'))
              crc   == ErrorsOf(added, "CRC validation failed")
              nof   == ErrorsOf(added, "No valid frame found")
              k     == hs'[i].discarded
          IN  /\ posted' = posted
              /\ lastSuccessTime' = lastSuccessTime
              /\ secondary' = secondary
              /\ \A e \in Range(added) : ~IsReading(e)
              /\ Len(added) = crc + nof
              /\ hs'[i].errors = crc + nof
              /\ nof <= 1
              /\ nof = 1 => /\ dataBuffer' = << >>
                            /\ hs'[i].pc = "done"
                            /\ added[Len(added)].error = "No valid frame found"
              /\ nof = 0 => dataBuffer' = SliceFrom(B, k + FRAME_LEN * crc)
              /\ hs'[i].pc = "done" => hs'[i].readings = 0
              /\ (HeadIsMagic(B) /\ ~HeadIsValid(B)) =>
                     /\ added[1].error = "CRC validation failed"
                     /\ LET rest == SliceFrom(B, FRAME_LEN)
                        IN  (Len(rest) < FRAME_LEN \/ HeadIsValid(rest)) =>
                                /\ added = <<ErrorRecord(now', "CRC validation failed")>>
                                /\ k = 0
                                /\ dataBuffer' = rest
                                /\ hs'[i].pc = (IF HeadIsValid(rest)
                                                THEN "metrics" ELSE "done")
              /\ (Len(B) >= FRAME_LEN /\ ~HeadIsMagic(B)
                     /\ LaterHeaders(B) = {}) =>
                     /\ added = <<ErrorRecord(now', "No valid frame found")>>
                     /\ k = 0
                     /\ dataBuffer' = << >>
                     /\ hs'[i].pc = "done"
              /\ (Len(B) >= FRAME_LEN /\ ~HeadIsMagic(B)
                     /\ LaterHeaders(B) # {}) =>
                     LET k0   == FirstLaterHeader(B)
                         rest == SliceFrom(B, k0)
                     IN  /\ k >= k0
                         /\ (Len(rest) < FRAME_LEN \/ HeadIsValid(rest)) =>
                                /\ added = << >>
                                /\ k = k0
                                /\ dataBuffer' = rest]_vars

(* A frame with a bad CRC was dropped with one error record and the frame  *)
(* behind it was decoded.                                                  *)
C15_Witness ==
    \E i \in Handlers :
        /\ hs[i].pending = << >>
        /\ hs[i].chunk = BadCrcFrame \o FrameA
        /\ hs[i].pc = "done"
        /\ hs[i].errors = 1
        /\ hs[i].readings = 1
        /\ Len(generated) = 2
        /\ ~IsReading(generated[1])
        /\ IsReading(generated[2])

(* The secondary sink is enabled in the configuration: BACKUP_TCP_TEST=true *)
(* in the .env file.                                                       *)
SecondaryEnabled == BACKUP_TCP_TEST = JsString("true")

(***************************************************************************)
(* C16: when the secondary sink is enabled, the Reading of every call of   *)
(* sendDataToTcpServer that has ended was written to the secondary sink    *)
(* exactly once; when it is disabled nothing is ever written to it.        *)
(***************************************************************************)
C16_SecondaryGated ==
    /\ (SecondaryEnabled /\ lastCall # NoCall) =>
           Count(secondary, BackupPayload(lastCall.payload)) = 1
    /\ ~SecondaryEnabled => secondary = << >>

(***************************************************************************)
(* The scheduler: scheduleSendCommand and sendCommand, with Node's timers. *)
(* A timer counts whole milliseconds of the event loop's clock, whose      *)
(* reading is cached once per loop iteration: it expires when that reading *)
(* has reached its due time, and its callback runs then or later, as late  *)
(* as the event loop gets to it.  On the program's clock (elapsed) a       *)
(* callback is therefore seen up to MaxEarly before the due time, or any   *)
(* time after it.  A timer set inside a callback starts from the cached    *)
(* reading, which is at least the due time of the timer that expired and   *)
(* at most the present time.                                               *)
(***************************************************************************)
MINUTE_MS == 60000

(* What the scheduler never writes.                                        *)
delivery ==
    <<now, dataBuffer, lastSuccessTime, sensorLog, nchunks, hs, generated,
      undelivered, overlapped, finishLen, lastCall, posted, secondary,
      BACKUP_TCP_TEST, TZ>>

(* The sample periods and the clock readings scheduleSendCommand is run on.*)
Periods == SAMPLE_RATE..MaxPeriod

ClockSamples ==
    (0..MaxClockMs) \cup {MINUTE_MS - 1 - k : k \in 0..MaxClockMs}

msUntilNextMinuteBug(m, P) == (P - (m % P)) % P

(* SAMPLE_RATE - ((now.getSeconds() * 1000 + now.getMilliseconds())        *)
(*                % SAMPLE_RATE)                                           *)
msUntilNextMinute(m, P) == P - (m % P)

(* sendCommand(): the command is written; an error is only logged.  Errors *)
(* are followed up to MaxFailed of them.                                   *)
WriteOutcomes(s) == IF s.failed < MaxFailed THEN BOOLEAN ELSE {FALSE}

sendCommand(s, err) ==
    [s EXCEPT !.written = Append(@, s.elapsed),
              !.failed = @ + (IF err THEN 1 ELSE 0)]

(* scheduleSendCommand() at clock reading m: the timeout is set.           *)
scheduleSendCommand(m) ==
    /\ sched.phase = "idle"
    /\ sched' = [sched EXCEPT !.phase = "timeout",
                              !.m = m,
                              !.delay = msUntilNextMinute(m, sched.P),
                              !.due = msUntilNextMinute(m, sched.P)]
    /\ UNCHANGED delivery

(* What a millisecond's passing leaves as it is.                           *)
timeless ==
    <<dataBuffer, lastSuccessTime, sensorLog, nchunks, hs, generated,
      undelivered, overlapped, finishLen, lastCall, posted, secondary,
      BACKUP_TCP_TEST, TZ>>

(***************************************************************************)
(* A millisecond passes, on the clock getPreciseAbsoluteTime reads as on   *)
(* the timers' clock, whether the pending timer is due or not: nothing     *)
(* bounds how late its callback runs.  Time is followed up to MaxElapsed.  *)
(***************************************************************************)
Tick ==
    /\ sched.phase # "idle"
    /\ sched.elapsed < MaxElapsed
    /\ sched' = [sched EXCEPT !.elapsed = @ + 1]
    /\ now' = now + 1
    /\ UNCHANGED timeless

(* The event loop's cached clock readings a callback can find when it runs *)
(* for a timer due at s.due.                                               *)
LoopTimes(s) == s.due..(IF s.elapsed > s.due THEN s.elapsed ELSE s.due)

(* The timeout's callback runs: sendCommand(), then                        *)
(* setInterval(sendCommand, P), which is due P after the loop's reading.   *)
TimeoutFires(err, loopNow) ==
    /\ sched.phase = "timeout"
    /\ sched.elapsed + MaxEarly >= sched.due
    /\ sched' = [sendCommand(sched, err) EXCEPT !.phase = "interval",
                                                !.due = loopNow + sched.P]
    /\ UNCHANGED delivery

(* The interval's callback runs: sendCommand(); the timer is set again, P  *)
(* after the loop's reading.                                               *)
IntervalFires(err, loopNow) ==
    /\ sched.phase = "interval"
    /\ sched.elapsed + MaxEarly >= sched.due
    /\ sched' = [sendCommand(sched, err) EXCEPT !.due = loopNow + sched.P]
    /\ UNCHANGED delivery

(* The days the timers are followed over.                                  *)
SchedDays == 0..(MaxElapsed \div MsPerDay)

(* syncTimeAndSchedule() at start-up, with the frame the first poll brings *)
(* decoded and delivered, or not, while the timers run.                    *)
InitSched ==
    /\ now = 0
    /\ dataBuffer = << >>
    /\ lastSuccessTime = NoTime
    /\ sensorLog = [d \in SchedDays |-> << >>]
    /\ nchunks = 0
    /\ hs = [i \in Handlers |-> HandlerInit]
    /\ generated = << >>
    /\ undelivered = {}
    /\ overlapped = FALSE
    /\ finishLen = 0
    /\ lastCall = NoCall
    /\ posted = {}
    /\ secondary = << >>
    /\ BACKUP_TCP_TEST = JsString("true")
    /\ TZ = Utc
    /\ \E p \in Periods : sched = [SchedIdle EXCEPT !.P = p]

(* The frame that answers the first poll arrives, before the second poll.  *)
FirstAnswer ==
    /\ Len(sched.written) = 1
    /\ nchunks = 0
    /\ Data(FrameA, now)

NextSched ==
    \/ \E m \in ClockSamples : scheduleSendCommand(m)
    \/ Tick
    \/ \E err \in WriteOutcomes(sched), loopNow \in LoopTimes(sched) :
           TimeoutFires(err, loopNow)
    \/ \E err \in WriteOutcomes(sched), loopNow \in LoopTimes(sched) :
           IntervalFires(err, loopNow)
    \/ FirstAnswer
    \/ \E i \in Handlers : MetricsDone(i, MetricsOk, now)
    \/ \E i \in Handlers : PostOkNoGap(i, now)
    \/ \E i \in Handlers : PostFail(i, now)
    \/ \E i \in Handlers : Resume(i, now)

SpecSched == InitSched /\ [][NextSched]_vars

(* The delay of the first timer: d = P - (m mod P), 0 < d <= P, and        *)
(* (m + d) mod P = 0, a full period when m is on a boundary.               *)
DelayAligned(s) ==
    /\ s.delay = s.P - (s.m % s.P)
    /\ 0 < s.delay
    /\ s.delay <= s.P
    /\ (s.m + s.delay) % s.P = 0
    /\ (s.m % s.P = 0) => s.delay = s.P

(***************************************************************************)
(* C17: once scheduleSendCommand has run at m, the one-shot timer's delay  *)
(* is d = P - (m mod P), so 0 < d <= P and (m + d) mod P = 0, a full       *)
(* period on a boundary; the first command is written by that timer's      *)
(* callback and not before d has passed on the timers' clock; every later  *)
(* command is written by the repeating timer of period P, the k-th not     *)
(* before d + (k-1)P, and after each command the next one is due at most P *)
(* after it; this goes on whether writes failed and whatever the decoder   *)
(* and the delivery did meanwhile.  The timer runs free: a callback may    *)
(* run late, and lateness is not made up for.                              *)
(***************************************************************************)
C17_PollTimers ==
    sched.phase # "idle" =>
        /\ DelayAligned(sched)
        /\ sched.phase = "timeout" <=> sched.written = << >>
        /\ sched.phase = "timeout" => sched.due = sched.delay
        /\ \A k \in 1..Len(sched.written) :
               sched.written[k] + MaxEarly >= sched.delay + (k - 1) * sched.P
        /\ sched.due >= sched.delay + Len(sched.written) * sched.P
        /\ sched.written # << >> =>
               sched.due
                   <= sched.written[Len(sched.written)] + sched.P + MaxEarly
        /\ sched.failed <= Len(sched.written)
        /\ now = sched.elapsed

(* Scheduled on a boundary, the first command written a full period       *)
(* later, the second P after it and the third late, some write failed, and *)
(* the Reading that answered a poll, stamped with the time it was decoded  *)
(* at, was not delivered.                                                  *)
C17_Witness ==
    /\ sched.m % sched.P = 0
    /\ Len(sched.written) >= 3
    /\ sched.written[1] = sched.P
    /\ sched.written[2] = sched.written[1] + sched.P
    /\ sched.written[3] > sched.written[2] + sched.P
    /\ sched.failed >= 1
    /\ \E r \in undelivered : DateParse(r.sensing_time) >= sched.written[1]

(***************************************************************************)
(* The decoder with every awaited operation completing: the metric probes  *)
(* settle (MetricsDone is taken once it stays enabled), no handler waits   *)
(* for the primary post for ever (the post returns, and the handler goes   *)
(* on in PostOkNoGap, which is enabled whenever it waits here) and a       *)
(* queued continuation is run (Resume).                                    *)
(***************************************************************************)
SpecDecodeFair ==
    /\ InitDecode
    /\ [][NextDecode]_vars
    /\ \A i \in Handlers :
           /\ WF_vars(MetricsDone(i, MetricsOk, now))
           /\ []<>(hs[i].pc # "post")
           /\ []<>(hs[i].pc # "returned")

(***************************************************************************)
(* C18: no iteration of the decode loop goes round with the buffer no      *)
(* shorter, and every handler that has started leaves the loop, whatever   *)
(* was pending and whatever the chunk.                                     *)
(***************************************************************************)
C18_Terminates ==
    /\ [](\A i \in Handlers : hs[i].pc # "spin")
    /\ \A i \in Handlers : (hs[i].pc # "new") ~> (hs[i].pc = "done")

(* A handler left the loop after discarding garbage byte by byte at a      *)
(* 0x50 that starts no frame, and decoding the frame behind it.            *)
C18_Witness ==
    \E i \in Handlers :
        /\ hs[i].pc = "done"
        /\ hs[i].pending = <<80>>
        /\ Len(hs[i].chunk) > FRAME_LEN
        /\ hs[i].chunk[1] = 80
        /\ hs[i].discarded >= 2
        /\ hs[i].readings = 1
        /\ hs[i].left = 0

(* The frames in the chunks that handlers 1..i received (in the runs of    *)
(* Spec every chunk is made of whole valid frames).                        *)
RECURSIVE FramesReceived(_)
FramesReceived(i) ==
    IF i = 0 THEN 0
    ELSE (Len(hs[i].chunk) \div FRAME_LEN) + FramesReceived(i - 1)

(***************************************************************************)
(* C19: also when chunks arrive while a handler is suspended, each valid   *)
(* frame of the byte stream yields exactly one Reading: there are never    *)
(* more Readings than frames received, and once no handler is suspended    *)
(* there are as many and no byte is pending.                               *)
(***************************************************************************)
C19_ExactlyOnce ==
    /\ Len(Readings) <= FramesReceived(MaxHandlers)
    /\ (\A i \in Handlers : ~Suspended(hs[i])) =>
           /\ Len(Readings) = FramesReceived(MaxHandlers)
           /\ dataBuffer = << >>

(***************************************************************************)
(* Runs in which no chunk arrives while a handler is suspended.  The       *)
(* resend loop is left out: it is entered only with a candidate, and a     *)
(* handler that had one would be left waiting at "resend".                 *)
(***************************************************************************)
DataSerial(c, t) ==
    /\ \A j \in Handlers : ~Suspended(hs[j])
    /\ DataUpTo(MaxChunks, c, t)

NextSerial ==
    \/ \E c \in Chunks, t \in ClockReadings : DataSerial(c, t)
    \/ \E i \in Handlers, t \in ClockReadings : MetricsDone(i, MetricsOk, t)
    \/ \E i \in Handlers, t \in ClockReadings : PostFail(i, t)
    \/ \E i \in Handlers, t \in ClockReadings : PostOkNoGap(i, t)
    \/ \E i \in Handlers : PostOkGap(i)
    \/ \E i \in Handlers : ReadFileOk(i)
    \/ \E i \in Handlers, t \in ClockReadings : FilterLogEntries(i, t)
    \/ \E i \in Handlers, t \in ClockReadings : ReadFileFail(i, t)
    \/ \E i \in Handlers, t \in ClockReadings : Resume(i, t)

(* The start of the program in any of the time zones.                      *)
InitSerial ==
    /\ now = 0
    /\ dataBuffer = << >>
    /\ lastSuccessTime = NoTime
    /\ sensorLog = [d \in Days |-> << >>]
    /\ nchunks = 0
    /\ hs = [i \in Handlers |-> HandlerInit]
    /\ generated = << >>
    /\ undelivered = {}
    /\ overlapped = FALSE
    /\ finishLen = 0
    /\ lastCall = NoCall
    /\ posted = {}
    /\ secondary = << >>
    /\ BACKUP_TCP_TEST = JsString("true")
    /\ TZ \in Zones
    /\ sched = SchedIdle

SpecSerial == InitSerial /\ [][NextSerial]_vars

(* The sensing times of the Readings strictly increase.                    *)
StrictlyIncreasing ==
    \A k \in 1..(Len(Readings) - 1) :
        DateParse(Readings[k + 1].sensing_time)
            > DateParse(Readings[k].sensing_time)

(* Handler i is at the gap check: its Reading, the last one generated, has *)
(* been passed to sendDataToTcpServer and the primary post is awaited.     *)
AtGapCheck(i) == hs[i].pc = "post"

(***************************************************************************)
(* C20: with handlers that do not overlap and strictly increasing sensing  *)
(* times, at every gap check lastSuccessTime is the sensing_time of the    *)
(* Reading passed to sendDataToTcpServer just before (null at the first),  *)
(* delivered or not, and every Reading in the daily log is no later than   *)
(* lastSuccessTime; so an episode never collects a candidate, never        *)
(* reaches the resend loop and resends nothing.                            *)
(***************************************************************************)
C20_SerialNoBackfill ==
    (~overlapped /\ StrictlyIncreasing) =>
        /\ \A i \in Handlers :
               AtGapCheck(i) =>
                   /\ hs[i].payload = Readings[Len(Readings)]
                   /\ lastSuccessTime =
                          (IF Len(Readings) = 1 THEN NoTime
                           ELSE Readings[Len(Readings) - 1].sensing_time)
                   /\ \A d \in Days : \A e \in Range(sensorLog[d]) :
                          (IsReading(e) /\ lastSuccessTime # NoTime) =>
                              DateParse(e.sensing_time)
                                  <= DateParse(lastSuccessTime)
                   /\ \A d \in Days : hs[i].payload \notin Range(sensorLog[d])
        /\ \A i \in Handlers :
               /\ hs[i].pc # "resend"
               /\ InEpisode(hs[i]) => Collected(hs[i]) = << >>
        /\ lastCall.episode =>
               (lastCall.cands = << >> /\ lastCall.tried = << >>)

(* An episode ran after an undelivered Reading, with that Reading in the   *)
(* log, and ended with nothing to resend.                                  *)
C20_Witness ==
    /\ ~overlapped
    /\ StrictlyIncreasing
    /\ lastCall.episode
    /\ lastCall.cands = << >>
    /\ Len(Readings) >= 2
    /\ Readings[Len(Readings) - 1] \in undelivered
    /\ InLog(Readings[Len(Readings) - 1])

=============================================================================
